---- MODULE Spec2Model ----
(***************************************************************************)
(* Model of the geospatialTracker server: the location routes              *)
(* (POST /api/locations, POST /api/locations/sync), the storage layer they *)
(* call, the WebSocket broadcast, and the containment test                 *)
(* isPointInGeofence with its helper getDistance.                          *)
(*                                                                         *)
(* Coordinates are integers.  One unit of latitude or longitude is one     *)
(* metre of arc on the sphere of radius R = 6 371 000 m (degrees times     *)
(* pi/180 times R), so that the haversine distance of two points on one    *)
(* meridian, or of two points on the equator, is the absolute difference   *)
(* of their coordinates.  Times are seconds.                               *)
(***************************************************************************)
EXTENDS Integers, Sequences, FiniteSets, TLC

VARIABLES
    now,             \* the server's clock (new Date(), SQL NOW())
    geofences,       \* table geofences: id -> row
    locations,       \* table locations, in insertion order
    geofenceEvents,  \* table geofence_events, in insertion order
    lastSeen,        \* devices.last_seen: device id -> time or NULL
    broadcasts,      \* messages broadcast() has sent to a connection, in order
    calls,           \* the HTTP calls: slot -> the handler's position and locals
    probe,           \* one evaluation of isPointInGeofence: arguments and result
    connections,     \* the WebSocket of each subscriber: its readyState, or "none"
    offline,         \* the client's offline store, its sync and its cleanup
    geo,             \* the geolocation hook: its state, refs and requests
    apiCache,        \* the service worker's API cache and the requests it handles
    wsClient         \* the WebSocket client: its socket, counter and timer

vars == <<now, geofences, locations, geofenceEvents, lastSeen, broadcasts,
          calls, probe, connections, offline, geo, apiCache, wsClient>>

clientVars == <<offline, geo, apiCache, wsClient>>

serverVars == <<now, geofences, locations, geofenceEvents, lastSeen, broadcasts,
                calls, connections>>

exceptOffline == <<serverVars, probe, geo, apiCache, wsClient>>

----------------------------------------------------------------------------
(* Bounds of the model *)

NumDevices == 1
MaxCalls == 2
MaxBatch == 2
MaxTicks == 2
GridMax == 4
MaxRadius == 3
MaxUpdates == 1
NumSockets == 1
MaxStored == 2
MaxClockSteps == 2

(* The client's clock advances in steps of this many days. *)
DayStep == 4

MaxPositions == 3
MaxWatches == 2
MaxGeoSteps == 4

(* The geolocation hook's clock advances in steps of this many seconds. *)
GeoStep == 10

MaxFetches == 2
MaxOrphans == 2
MaxTimers == 2

(* The clock advances in steps of this many seconds. *)
TickSeconds == 45

(* SQL NULL / undefined in a numeric column *)
NULL == -1

Devices == 1..NumDevices
CallIds == 1..MaxCalls
Sockets == 1..NumSockets
Times == {k * TickSeconds : k \in 0..MaxTicks}

Abs(x) == IF x < 0 THEN -x ELSE x

SeqsUpTo(S, n) == UNION {[1..k -> S] : k \in 0..n}

----------------------------------------------------------------------------
(* Geometry: isPointInGeofence, getDistance *)

Point(lat, lng) == [lat |-> lat, lng |-> lng]

(* The jsonb value of geofences.coordinates as the drawing tool builds it:  *)
(* a Polygon holds one ring of [lng, lat] vertices, a circle is a Point     *)
(* [lng, lat] with a radius.  Fields a shape does not have are <<>> and 0;  *)
(* hasRing tells whether coordinates[0] exists.  A radius that is absent    *)
(* and a radius of 0 are both 0: the code only asks whether it is truthy.   *)
PolygonShape(ring) ==
    [type |-> "Polygon", ring |-> ring, center |-> <<>>, radius |-> 0,
     hasRing |-> TRUE]

CircleShape(lng, lat, radius) ==
    [type |-> "Point", ring |-> <<>>, center |-> <<lng, lat>>, radius |-> radius,
     hasRing |-> FALSE]

(* A Polygon whose coordinates hold no ring: { type: "Polygon",             *)
(* coordinates: [] }.  insertGeofenceSchema takes any JSON for coordinates. *)
RinglessPolygon ==
    [type |-> "Polygon", ring |-> <<>>, center |-> <<>>, radius |-> 0,
     hasRing |-> FALSE]

(* A rectangle drawn on the map: five vertices, the first repeated. *)
RectangleRing(swLng, swLat, neLng, neLat) ==
    << <<swLng, swLat>>, <<neLng, swLat>>, <<neLng, neLat>>,
       <<swLng, neLat>>, <<swLng, swLat>> >>

(* A polygon drawn on the map: its vertices, implicitly closed. *)
TriangleRing(lng1, lat1, lng2, lat2) ==
    << <<lng1, lat1>>, <<lng2, lat1>>, <<lng1, lat2>> >>

(* Two points whose haversine distance is the difference of coordinates. *)
Aligned(point1, point2) ==
    \/ point1.lng = point2.lng
    \/ point1.lat = 0 /\ point2.lat = 0

(* getDistance: R * c with c the central angle.  With dLon = 0 the         *)
(* haversine a is sin^2(dLat/2) and c = |dLat|; with lat1 = lat2 = 0 it is  *)
(* sin^2(dLon/2) and c = |dLon|.  Other pairs are not modelled.             *)
getDistance(point1, point2) ==
    LET dLat == point2.lat - point1.lat
        dLon == point2.lng - point1.lng
    IN  IF dLon = 0 THEN Abs(dLat)
        ELSE IF point1.lat = 0 /\ point2.lat = 0 THEN Abs(dLon)
        ELSE "not modelled"

(* The loop's test for vertex i and its predecessor j.  The division by     *)
(* (yj - yi) is exact: the comparison is cross-multiplied.                  *)
Crosses(point, coordinates, i, j) ==
    LET xi == coordinates[i][2]
        yi == coordinates[i][1]
        xj == coordinates[j][2]
        yj == coordinates[j][1]
    IN  /\ (yi > point.lat) # (yj > point.lat)
        /\ IF yj - yi > 0
           THEN (point.lng - xi) * (yj - yi) < (xj - xi) * (point.lat - yi)
           ELSE (point.lng - xi) * (yj - yi) > (xj - xi) * (point.lat - yi)

(* The for loop over the ring, from vertex i on: inside is toggled at each  *)
(* crossing; j is the last vertex at first, then the previous one.          *)
RECURSIVE PolygonLoop(_, _, _, _)
PolygonLoop(point, coordinates, i, inside) ==
    IF i > Len(coordinates) THEN inside
    ELSE LET j == IF i = 1 THEN Len(coordinates) ELSE i - 1
         IN  PolygonLoop(point, coordinates, i + 1,
                         IF Crosses(point, coordinates, i, j)
                         THEN ~inside ELSE inside)

(* A variant of the circle test that excludes the boundary *)
CircleContainsExclusive(point, geofence) ==
    getDistance(point, Point(geofence.center[2], geofence.center[1]))
        < geofence.radius

(* The circle branch: the distance to the centre [lng, lat] against radius *)
CircleContains(point, geofence) ==
    getDistance(point, Point(geofence.center[2], geofence.center[1]))
        <= geofence.radius

isPointInGeofence(point, geofence) ==
    IF geofence.type = "Polygon"
    THEN PolygonLoop(point, geofence.ring, 1, FALSE)
    ELSE IF geofence.type = "Point" /\ geofence.radius # 0
    THEN CircleContains(point, geofence)
    ELSE FALSE

(* The Polygon branch reads coordinates.length of geofence.coordinates[0]:  *)
(* without a ring that is a property of undefined, a TypeError; the value   *)
(* of isPointInGeofence is then not returned.                               *)
RaisesTypeError(geofence) ==
    geofence.type = "Polygon" /\ ~geofence.hasRing

----------------------------------------------------------------------------
(* One evaluation of the containment test on drawn inputs *)

Grid == 0..GridMax
GridPoints == {Point(lat, lng) : lat \in Grid, lng \in Grid}

Rectangles ==
    {PolygonShape(RectangleRing(w, s, e, n)) :
        w \in Grid, s \in Grid, e \in Grid, n \in Grid}

Triangles ==
    {PolygonShape(TriangleRing(a, b, c, d)) :
        a \in Grid, b \in Grid, c \in Grid, d \in Grid}

ProperPolygons ==
    {g \in Rectangles \cup Triangles :
        /\ g.ring[1][1] # g.ring[2][1]
        /\ g.ring[1][2] # g.ring[3][2]
        /\ Len(g.ring) = 5 => g.ring[1][1] < g.ring[2][1] /\ g.ring[1][2] < g.ring[3][2]}

Circles ==
    {CircleShape(lng, lat, r) : lng \in Grid, lat \in Grid, r \in 1..MaxRadius}

(* Shapes without an area: a Polygon with no ring or with a ring of fewer  *)
(* than three vertices, a circle whose radius is absent, 0 or negative.     *)
GridVertices == {<<lng, lat>> : lng \in Grid, lat \in Grid}

DegeneratePolygons ==
    {RinglessPolygon} \cup {PolygonShape(ring) : ring \in SeqsUpTo(GridVertices, 2)}

DegenerateCircles ==
    {CircleShape(lng, lat, r) : lng \in Grid, lat \in Grid, r \in (-MaxRadius)..0}

Probe(point, geofence) ==
    [point |-> point, geofence |-> geofence, done |-> FALSE, inside |-> FALSE,
     raised |-> FALSE]

ProbeInputs ==
    {Probe(p, g) : p \in GridPoints, g \in ProperPolygons \cup DegeneratePolygons}
    \cup
    {pr \in {Probe(p, g) : p \in GridPoints, g \in Circles \cup DegenerateCircles} :
        Aligned(pr.point, Point(pr.geofence.center[2], pr.geofence.center[1]))}

NoProbe ==
    [point |-> Point(0, 0), geofence |-> CircleShape(0, 0, 1),
     done |-> TRUE, inside |-> TRUE, raised |-> FALSE]

(* The call returns a value, or raises and returns none *)
Evaluated(pr) ==
    IF RaisesTypeError(pr.geofence)
    THEN [pr EXCEPT !.done = TRUE, !.raised = TRUE]
    ELSE [pr EXCEPT !.done = TRUE,
                    !.inside = isPointInGeofence(pr.point, pr.geofence)]

EvalPolygon ==
    /\ ~probe.done
    /\ probe.geofence.type = "Polygon"
    /\ probe' = Evaluated(probe)
    /\ UNCHANGED <<serverVars, clientVars>>

EvalCircle ==
    /\ ~probe.done
    /\ probe.geofence.type = "Point"
    /\ probe' = Evaluated(probe)
    /\ UNCHANGED <<serverVars, clientVars>>

----------------------------------------------------------------------------
(* The tables and the request bodies *)

GeofenceIds == {1, 2}

(* The geofences of the model: a circle of radius 3 around (0, 0) and the   *)
(* square with corners (-1, -1) and (1, 1), both active and not expiring.   *)
InitGeofences ==
    [id \in GeofenceIds |->
        [id |-> id,
         coordinates |-> IF id = 1 THEN CircleShape(0, 0, 3)
                         ELSE PolygonShape(RectangleRing(-1, -1, 1, 1)),
         isActive |-> TRUE,
         expiresAt |-> NULL]]

(* Where a device reports from: inside both geofences, inside the circle   *)
(* only (on its boundary), outside both.                                    *)
ReportPoints == {Point(0, 0), Point(3, 0), Point(0, 4)}

(* A request body of POST /api/locations: what the client sends, with the  *)
(* time the position was observed.  latitude and longitude travel as        *)
(* decimal strings and are read back with parseFloat: they are numbers here.*)
Body(deviceId, point, isOfflineRecord, timestamp) ==
    [deviceId |-> deviceId, latitude |-> point.lat, longitude |-> point.lng,
     isOfflineRecord |-> isOfflineRecord, timestamp |-> timestamp]

LiveBodies ==
    {Body(d, p, FALSE, t) : d \in Devices, p \in ReportPoints,
                            t \in {u \in Times : u <= now}}

OfflineBodies(d) ==
    {Body(d, p, TRUE, t) : p \in ReportPoints, t \in {u \in Times : u <= now}}

(* The bodies of POST /api/locations/sync: the offline queue of one device. *)
BatchBodies == UNION {SeqsUpTo(OfflineBodies(d), MaxBatch) : d \in Devices}

NoBody == Body(0, Point(0, 0), FALSE, NULL)

(* One degree of arc in metres: R * PI / 180 with R = 6371000, rounded *)
Degree == 111195

(* A report from latitude 95: the decimal(10, 8) column takes it. *)
OutOfRangePoint == Point(95 * Degree, 0)

OutOfRangeBodies ==
    {Body(d, OutOfRangePoint, FALSE, t) : d \in Devices, t \in {u \in Times : u <= now}}

(* A body without latitude and longitude.  No report point of the model    *)
(* has a coordinate equal to NULL.                                          *)
MissingCoordinates == Point(NULL, NULL)

InvalidBodies ==
    {Body(d, MissingCoordinates, FALSE, t) : d \in Devices, t \in {u \in Times : u <= now}}

(* The batches with a report that has no coordinates *)
InvalidBatchBodies ==
    UNION {{batch \in SeqsUpTo(OfflineBodies(d)
                                  \cup {Body(d, MissingCoordinates, TRUE, now)},
                              MaxBatch) :
               \E k \in 1..Len(batch) : batch[k].latitude = NULL} : d \in Devices}

(* insertLocationSchema.parse succeeds: latitude and longitude are         *)
(* required strings; the schema states no range.                            *)
Parses(body) == body.latitude # NULL /\ body.longitude # NULL

(* insertLocationSchema.parse: the locations columns without id, timestamp *)
(* and syncedAt; zod drops the keys the schema does not name.               *)
insertLocationSchema(body) ==
    [deviceId |-> body.deviceId, latitude |-> body.latitude,
     longitude |-> body.longitude, isOfflineRecord |-> body.isOfflineRecord]

(* A row of locations inserted at the server's time: timestamp defaults to *)
(* NOW(). *)
LocationRow(id, insertLocation, syncedAt) ==
    [id |-> id, deviceId |-> insertLocation.deviceId,
     latitude |-> insertLocation.latitude, longitude |-> insertLocation.longitude,
     timestamp |-> now, isOfflineRecord |-> insertLocation.isOfflineRecord,
     syncedAt |-> syncedAt]

(* storage.createLocation: the table after the insert *)
createLocation(insertLocation) ==
    Append(locations, LocationRow(Len(locations) + 1, insertLocation, NULL))

(* storage.syncOfflineLocations: one insert of all the rows, syncedAt set *)
RECURSIVE InsertAll(_, _)
InsertAll(table, insertLocations) ==
    IF insertLocations = <<>> THEN table
    ELSE InsertAll(Append(table, LocationRow(Len(table) + 1, Head(insertLocations), now)),
                   Tail(insertLocations))

syncOfflineLocations(insertLocations) ==
    IF Len(insertLocations) = 0 THEN locations
    ELSE InsertAll(locations, insertLocations)

(* storage.createGeofenceEvent: the row the insert returns; timestamp      *)
(* defaults to NOW() and duration, which the caller does not give, is NULL. *)
createGeofenceEvent(insertEvent) ==
    [id |-> Len(geofenceEvents) + 1, deviceId |-> insertEvent.deviceId,
     geofenceId |-> insertEvent.geofenceId, eventType |-> insertEvent.eventType,
     latitude |-> insertEvent.latitude, longitude |-> insertEvent.longitude,
     timestamp |-> now, duration |-> NULL]

(* storage.updateDeviceLastSeen *)
updateDeviceLastSeen(id) == [lastSeen EXCEPT ![id] = now]

(* A variant of the selection that does not look at expires_at *)
ActiveIdsIgnoringExpiry ==
    {id \in GeofenceIds : geofences[id].isActive}

(* The rows getActiveGeofences selects.  The query has no ORDER BY: the    *)
(* rows come in any order.                                                  *)
ActiveIds ==
    {id \in GeofenceIds :
        /\ geofences[id].isActive
        /\ geofences[id].expiresAt = NULL \/ geofences[id].expiresAt > now}

getActiveGeofences ==
    {[k \in 1..Cardinality(ActiveIds) |-> geofences[f[k]]] :
        f \in {g \in [1..Cardinality(ActiveIds) -> ActiveIds] :
                  \A a, b \in 1..Cardinality(ActiveIds) : a # b => g[a] # g[b]}}

(* broadcast(data): the message is handed to every connection of the set   *)
(* whose readyState is OPEN; with none, nothing is sent.                    *)
Message(type, id, geofenceId, count) ==
    [type |-> type, id |-> id, geofenceId |-> geofenceId, count |-> count]

broadcast(data) ==
    IF \E ws \in Sockets : connections[ws] = "OPEN"
    THEN Append(broadcasts, data)
    ELSE broadcasts

----------------------------------------------------------------------------
(* The handlers.  A handler runs to its next await in one step. *)

IdleCall ==
    [route |-> "none", pc |-> "idle", body |-> NoBody, batch |-> <<>>,
     snapshot |-> <<>>, i |-> 0, locationId |-> NULL, eventId |-> NULL,
     status |-> 0]

(* Calls arrive in slot order. *)
CanStart(c) ==
    /\ calls[c].pc = "idle"
    /\ \A b \in CallIds : b < c => calls[b].pc # "idle"

(* No call has arrived yet. *)
NoCallYet == \A c \in CallIds : calls[c].pc = "idle"

(* The first geofence of the snapshot, from index i on, that contains the  *)
(* reported point; 0 when the loop runs to its end.                         *)
RECURSIVE NextContaining(_, _, _)
NextContaining(snapshot, point, i) ==
    IF i > Len(snapshot) THEN 0
    ELSE IF isPointInGeofence(point, snapshot[i].coordinates) THEN i
    ELSE NextContaining(snapshot, point, i + 1)

(* The first geofence of the snapshot, from index i on, at which the loop  *)
(* does not just go on: the test raises or returns true; 0 when the loop    *)
(* runs to its end.                                                         *)
RECURSIVE NextStop(_, _, _)
NextStop(snapshot, point, i) ==
    IF i > Len(snapshot) THEN 0
    ELSE IF RaisesTypeError(snapshot[i].coordinates)
            \/ isPointInGeofence(point, snapshot[i].coordinates) THEN i
    ELSE NextStop(snapshot, point, i + 1)

ReportPoint(locationData) == Point(locationData.latitude, locationData.longitude)

(* POST /api/locations: the body is parsed and createLocation is called *)
PostLocation(c) ==
    /\ CanStart(c)
    /\ \E body \in LiveBodies :
         calls' = [calls EXCEPT ![c] =
                     [IdleCall EXCEPT !.route = "live", !.pc = "createLocation",
                                      !.body = body]]
    /\ UNCHANGED <<now, geofences, locations, geofenceEvents, lastSeen,
                   broadcasts, probe, connections, clientVars>>

(* createLocation completes; updateDeviceLastSeen is called *)
LiveCreateLocation(c) ==
    /\ calls[c].route = "live" /\ calls[c].pc = "createLocation"
    /\ locations' = createLocation(insertLocationSchema(calls[c].body))
    /\ calls' = [calls EXCEPT ![c].pc = "updateDeviceLastSeen",
                              ![c].locationId = Len(locations')]
    /\ UNCHANGED <<now, geofences, geofenceEvents, lastSeen, broadcasts, probe, connections, clientVars>>

(* updateDeviceLastSeen completes; getActiveGeofences is called *)
LiveUpdateLastSeen(c) ==
    /\ calls[c].route = "live" /\ calls[c].pc = "updateDeviceLastSeen"
    /\ lastSeen' = updateDeviceLastSeen(calls[c].body.deviceId)
    /\ calls' = [calls EXCEPT ![c].pc = "getActiveGeofences"]
    /\ UNCHANGED <<now, geofences, locations, geofenceEvents, broadcasts, probe, connections, clientVars>>

(* getActiveGeofences completes; the loop starts *)
LiveGetActiveGeofences(c) ==
    /\ calls[c].route = "live" /\ calls[c].pc = "getActiveGeofences"
    /\ \E rows \in getActiveGeofences :
         calls' = [calls EXCEPT ![c].pc = "loop", ![c].snapshot = rows, ![c].i = 1]
    /\ UNCHANGED <<now, geofences, locations, geofenceEvents, lastSeen,
                   broadcasts, probe, connections, clientVars>>

(* The loop reaches a geofence that contains the point: createGeofenceEvent *)
(* is called and inserts the entry event                                    *)
LiveCreateEvent(c) ==
    LET locationData == insertLocationSchema(calls[c].body)
        k == NextStop(calls[c].snapshot, ReportPoint(locationData), calls[c].i)
    IN  /\ calls[c].route = "live" /\ calls[c].pc = "loop"
        /\ k # 0
        /\ ~RaisesTypeError(calls[c].snapshot[k].coordinates)
        /\ geofenceEvents' =
             Append(geofenceEvents,
                    createGeofenceEvent([deviceId |-> locationData.deviceId,
                                         geofenceId |-> calls[c].snapshot[k].id,
                                         eventType |-> "entry",
                                         latitude |-> locationData.latitude,
                                         longitude |-> locationData.longitude]))
        /\ calls' = [calls EXCEPT ![c].pc = "broadcastEvent", ![c].i = k,
                                  ![c].eventId = Len(geofenceEvents')]
        /\ UNCHANGED <<now, geofences, locations, lastSeen, broadcasts, probe, connections, clientVars>>

(* A variant in which a broadcast that reaches no subscriber raises *)
LiveBroadcastEventAborts(c) ==
    /\ calls[c].route = "live" /\ calls[c].pc = "broadcastEvent"
    /\ broadcasts' = broadcast(Message("geofence_event", calls[c].eventId,
                                       calls[c].snapshot[calls[c].i].id, NULL))
    /\ calls' = IF broadcasts' = broadcasts
                THEN [calls EXCEPT ![c].pc = "done", ![c].status = 500]
                ELSE [calls EXCEPT ![c].pc = "loop", ![c].i = calls[c].i + 1]
    /\ UNCHANGED <<now, geofences, locations, geofenceEvents, lastSeen, probe,
                   connections, clientVars>>

(* createGeofenceEvent has returned: the event is broadcast, the loop goes on *)
LiveBroadcastEvent(c) ==
    /\ calls[c].route = "live" /\ calls[c].pc = "broadcastEvent"
    /\ broadcasts' = broadcast(Message("geofence_event", calls[c].eventId,
                                       calls[c].snapshot[calls[c].i].id, NULL))
    /\ calls' = [calls EXCEPT ![c].pc = "loop", ![c].i = calls[c].i + 1]
    /\ UNCHANGED <<now, geofences, locations, geofenceEvents, lastSeen, probe, connections, clientVars>>

(* The loop ends: the location is broadcast and returned *)
LiveRespond(c) ==
    /\ calls[c].route = "live" /\ calls[c].pc = "loop"
    /\ NextStop(calls[c].snapshot,
                ReportPoint(insertLocationSchema(calls[c].body)), calls[c].i) = 0
    /\ broadcasts' = broadcast(Message("location_update", calls[c].locationId, NULL, NULL))
    /\ calls' = [calls EXCEPT ![c].pc = "done", ![c].status = 200]
    /\ UNCHANGED <<now, geofences, locations, geofenceEvents, lastSeen, probe, connections, clientVars>>

(* POST /api/locations/sync: the array is parsed, syncOfflineLocations called *)
PostSync(c) ==
    /\ CanStart(c)
    /\ \E batch \in BatchBodies :
         calls' = [calls EXCEPT ![c] =
                     [IdleCall EXCEPT !.route = "sync", !.pc = "syncOfflineLocations",
                                      !.batch = batch]]
    /\ UNCHANGED <<now, geofences, locations, geofenceEvents, lastSeen,
                   broadcasts, probe, connections, clientVars>>

(* syncOfflineLocations completes *)
SyncInsert(c) ==
    /\ calls[c].route = "sync" /\ calls[c].pc = "syncOfflineLocations"
    /\ locations' = syncOfflineLocations(
                        [k \in 1..Len(calls[c].batch) |->
                            insertLocationSchema(calls[c].batch[k])])
    /\ calls' = [calls EXCEPT ![c].pc = "respond"]
    /\ UNCHANGED <<now, geofences, geofenceEvents, lastSeen, broadcasts, probe, connections, clientVars>>

(* the count is broadcast and returned *)
SyncRespond(c) ==
    /\ calls[c].route = "sync" /\ calls[c].pc = "respond"
    /\ broadcasts' = broadcast(Message("offline_sync", NULL, NULL, Len(calls[c].batch)))
    /\ calls' = [calls EXCEPT ![c].pc = "done", ![c].status = 200]
    /\ UNCHANGED <<now, geofences, locations, geofenceEvents, lastSeen, probe, connections, clientVars>>

(* POST /api/locations with a latitude beyond 90 degrees: the body parses  *)
(* and the handler goes on as for any report.                               *)
PostLocationOutOfRange(c) ==
    /\ CanStart(c)
    /\ \E body \in {b \in OutOfRangeBodies : Parses(b)} :
         calls' = [calls EXCEPT ![c] =
                     [IdleCall EXCEPT !.route = "live", !.pc = "createLocation",
                                      !.body = body]]
    /\ UNCHANGED <<now, geofences, locations, geofenceEvents, lastSeen,
                   broadcasts, probe, connections, clientVars>>

(* POST /api/locations with a body that does not parse: the ZodError is    *)
(* caught and answered with 400.                                            *)
PostLocationInvalid(c) ==
    /\ CanStart(c)
    /\ \E body \in {b \in InvalidBodies : ~Parses(b)} :
         calls' = [calls EXCEPT ![c] =
                     [IdleCall EXCEPT !.route = "live", !.pc = "done",
                                      !.body = body, !.status = 400]]
    /\ UNCHANGED <<now, geofences, locations, geofenceEvents, lastSeen,
                   broadcasts, probe, connections, clientVars>>

(* A variant in which the last-seen update precedes the insert *)
LiveCreateLocationFailsLate(c) ==
    /\ calls[c].route = "live" /\ calls[c].pc = "createLocation"
    /\ lastSeen' = updateDeviceLastSeen(calls[c].body.deviceId)
    /\ calls' = [calls EXCEPT ![c].pc = "done", ![c].status = 500]
    /\ UNCHANGED <<now, geofences, locations, geofenceEvents, broadcasts, probe,
                   connections, clientVars>>

(* createLocation rejects: nothing is inserted, the catch answers 500 *)
LiveCreateLocationFails(c) ==
    /\ calls[c].route = "live" /\ calls[c].pc = "createLocation"
    /\ calls' = [calls EXCEPT ![c].pc = "done", ![c].status = 500]
    /\ UNCHANGED <<now, geofences, locations, geofenceEvents, lastSeen,
                   broadcasts, probe, connections, clientVars>>

(* updateDeviceLastSeen, getActiveGeofences or createGeofenceEvent rejects: *)
(* the catch answers 500, what was done before stays                        *)
LiveStorageFails(c) ==
    /\ calls[c].route = "live"
    /\ \/ calls[c].pc \in {"updateDeviceLastSeen", "getActiveGeofences"}
       \/ /\ calls[c].pc = "loop"
          /\ NextStop(calls[c].snapshot,
                      ReportPoint(insertLocationSchema(calls[c].body)),
                      calls[c].i) # 0
    /\ calls' = [calls EXCEPT ![c].pc = "done", ![c].status = 500]
    /\ UNCHANGED <<now, geofences, locations, geofenceEvents, lastSeen,
                   broadcasts, probe, connections, clientVars>>

(* POST /api/locations/sync with a report that does not parse: the array   *)
(* is parsed as a whole, the ZodError is answered with 400.                 *)
PostSyncInvalid(c) ==
    /\ CanStart(c)
    /\ \E batch \in InvalidBatchBodies :
         calls' = [calls EXCEPT ![c] =
                     [IdleCall EXCEPT !.route = "sync", !.pc = "done",
                                      !.batch = batch, !.status = 400]]
    /\ UNCHANGED <<now, geofences, locations, geofenceEvents, lastSeen,
                   broadcasts, probe, connections, clientVars>>

(* syncOfflineLocations rejects: the one insert stores no row, the catch   *)
(* answers 500                                                              *)
SyncInsertFails(c) ==
    /\ calls[c].route = "sync" /\ calls[c].pc = "syncOfflineLocations"
    /\ calls' = [calls EXCEPT ![c].pc = "done", ![c].status = 500]
    /\ UNCHANGED <<now, geofences, locations, geofenceEvents, lastSeen,
                   broadcasts, probe, connections, clientVars>>

(* wss.on('connection'): the socket joins the set *)
SocketConnect(ws) ==
    /\ connections[ws] = "none"
    /\ connections' = [connections EXCEPT ![ws] = "OPEN"]
    /\ UNCHANGED <<now, geofences, locations, geofenceEvents, lastSeen,
                   broadcasts, calls, probe, clientVars>>

(* The closing handshake has begun: readyState is no longer OPEN, 'close'  *)
(* has not been emitted yet.                                                *)
SocketClosing(ws) ==
    /\ connections[ws] = "OPEN"
    /\ connections' = [connections EXCEPT ![ws] = "CLOSING"]
    /\ UNCHANGED <<now, geofences, locations, geofenceEvents, lastSeen,
                   broadcasts, calls, probe, clientVars>>

(* ws.on('close'): the socket leaves the set *)
SocketClose(ws) ==
    /\ connections[ws] \in {"OPEN", "CLOSING"}
    /\ connections' = [connections EXCEPT ![ws] = "none"]
    /\ UNCHANGED <<now, geofences, locations, geofenceEvents, lastSeen,
                   broadcasts, calls, probe, clientVars>>

(* ws.on('error'): a failure of the connection, a failed send included, is *)
(* logged and the socket leaves the set                                     *)
SocketError(ws) ==
    /\ connections[ws] \in {"OPEN", "CLOSING"}
    /\ connections' = [connections EXCEPT ![ws] = "none"]
    /\ UNCHANGED <<now, geofences, locations, geofenceEvents, lastSeen,
                   broadcasts, calls, probe, clientVars>>

(* The loop reaches a geofence at which isPointInGeofence raises: the      *)
(* handler's catch answers 500; the rest of the snapshot is not evaluated.  *)
LiveEvalRaises(c) ==
    LET k == NextStop(calls[c].snapshot,
                      ReportPoint(insertLocationSchema(calls[c].body)), calls[c].i)
    IN  /\ calls[c].route = "live" /\ calls[c].pc = "loop"
        /\ k # 0
        /\ RaisesTypeError(calls[c].snapshot[k].coordinates)
        /\ calls' = [calls EXCEPT ![c].pc = "done", ![c].i = k, ![c].status = 500]
        /\ UNCHANGED <<now, geofences, locations, geofenceEvents, lastSeen,
                       broadcasts, probe, connections, clientVars>>

(* A rectangle redrawn on the map: longitudes -1 to 1, latitudes 2 to 4 *)
TallRectangle == PolygonShape(RectangleRing(-1, 2, 1, 4))

(* The rows storage.updateGeofence can make of a row: the body of PUT or   *)
(* PATCH /api/geofences/:id is a partial geofence; it sets isActive, or     *)
(* expiresAt, or replaces coordinates (by any JSON: here by a Polygon       *)
(* without ring).                                                           *)
UpdatedRows(row) ==
    {[row EXCEPT !.isActive = b] : b \in BOOLEAN}
    \cup {[row EXCEPT !.expiresAt = t] : t \in Times \cup {NULL}}
    \cup {[row EXCEPT !.coordinates = shape] : shape \in {RinglessPolygon, TallRectangle}}

NumUpdates ==
    Len(SelectSeq(broadcasts, LAMBDA m : m.type = "geofence_updated"))

(* PUT or PATCH /api/geofences/:id: the row is updated, the change is      *)
(* broadcast.                                                               *)
UpdateGeofence(id) ==
    /\ NumUpdates < MaxUpdates
    /\ \E row \in UpdatedRows(geofences[id]) \ {geofences[id]} :
         geofences' = [geofences EXCEPT ![id] = row]
    /\ broadcasts' = broadcast(Message("geofence_updated", NULL, id, NULL))
    /\ UNCHANGED <<now, locations, geofenceEvents, lastSeen, calls, probe,
                   connections, clientVars>>

(* Time passes. *)
Tick ==
    /\ now < MaxTicks * TickSeconds
    /\ now' = now + TickSeconds
    /\ UNCHANGED <<geofences, locations, geofenceEvents, lastSeen, broadcasts,
                   calls, probe, connections, clientVars>>

----------------------------------------------------------------------------
(* The client's offline store: lib/offline-storage.ts and the hook
   useOfflineStorage.  Time is counted in days. *)

RetentionDays == 7

ClientClock == 0..(MaxClockSteps * DayStep)

\* A row of the IndexedDB store "locations": its key and its timestamp.
OfflineLocation(id, timestamp) == [id |-> id, timestamp |-> timestamp]

InitOffline ==
    [online |-> TRUE,
     clock |-> 0,
     steps |-> 0,
     nextKey |-> 1,
     store |-> {},
     sync |-> [pc |-> "idle", locations |-> {}],
     cleanup |-> [pc |-> "idle", recentLocations |-> {}]]

\* offlineStorage.addLocation: store.add(location), the key generated when
\* the location carries none.
addLocation(store, location) == store \cup {location}

\* offlineStorage.clearLocations: store.clear().
clearLocations(store) == {}

\* addOfflineLocation: the location is stored with its own timestamp, or the
\* present time when it has none.
addOfflineLocation ==
    /\ offline.nextKey <= MaxStored
    /\ \E timestamp \in {t \in ClientClock : t <= offline.clock} :
           offline' = [offline EXCEPT
               !.store = addLocation(@, OfflineLocation(offline.nextKey, timestamp)),
               !.nextKey = @ + 1]
    /\ UNCHANGED exceptOffline

SyncInFlight == offline.sync.pc \in {"getLocations", "request"}

\* syncOfflineData while navigator.onLine is false: it returns.
SyncSkippedOffline ==
    /\ ~SyncInFlight
    /\ ~offline.online
    /\ offline' = [offline EXCEPT !.sync = [pc |-> "skipped", locations |-> {}]]
    /\ UNCHANGED exceptOffline

\* syncOfflineData while online, up to its await of getLocations.
syncOfflineData ==
    /\ ~SyncInFlight
    /\ offline.online
    /\ offline' = [offline EXCEPT !.sync = [pc |-> "getLocations", locations |-> {}]]
    /\ UNCHANGED exceptOffline

\* getLocations resolves: an empty store ends the sync, any other is posted
\* whole by syncMutation.mutate(locations).
SyncGetLocations ==
    /\ offline.sync.pc = "getLocations"
    /\ offline' = [offline EXCEPT
           !.sync = IF offline.store = {}
                    THEN [pc |-> "skipped", locations |-> {}]
                    ELSE [pc |-> "request", locations |-> offline.store]]
    /\ UNCHANGED exceptOffline

\* syncMutation.onSuccess: the server accepted the request; the whole store
\* is cleared.
SyncSuccess ==
    /\ offline.sync.pc = "request"
    /\ offline' = [offline EXCEPT
           !.sync.pc = "accepted",
           !.store = clearLocations(@)]
    /\ UNCHANGED exceptOffline

\* A variant of syncMutation.onError in which the failure clears the store.
SyncErrorClears ==
    /\ offline.sync.pc = "request"
    /\ offline' = [offline EXCEPT
           !.sync.pc = "failed",
           !.store = clearLocations(@)]
    /\ UNCHANGED exceptOffline

\* syncMutation.onError: a network error or a non-success response is logged.
SyncError ==
    /\ offline.sync.pc = "request"
    /\ offline' = [offline EXCEPT !.sync.pc = "failed"]
    /\ UNCHANGED exceptOffline

\* The window's 'offline' event.
handleOffline ==
    /\ offline.online
    /\ offline' = [offline EXCEPT !.online = FALSE]
    /\ UNCHANGED exceptOffline

\* The window's 'online' event: handleOnline calls syncOfflineData.
handleOnline ==
    /\ ~offline.online
    /\ ~SyncInFlight
    /\ offline' = [offline EXCEPT
           !.online = TRUE,
           !.sync = [pc |-> "getLocations", locations |-> {}]]
    /\ UNCHANGED exceptOffline

\* The filter of cleanupOldData: locationDate > sevenDaysAgo.
recentLocations(stored, clock) ==
    {location \in stored : location.timestamp > clock - RetentionDays}

\* cleanupOldData, up to its await of getLocations.
cleanupOldData ==
    /\ offline.cleanup.pc = "idle"
    /\ offline' = [offline EXCEPT !.cleanup.pc = "getLocations"]
    /\ UNCHANGED exceptOffline

\* getLocations resolves: with nothing old the cleanup ends, otherwise it
\* goes on to clear the store, keeping the recent rows it read.
CleanupGetLocations ==
    /\ offline.cleanup.pc = "getLocations"
    /\ LET recent == recentLocations(offline.store, offline.clock)
       IN  offline' = [offline EXCEPT
               !.cleanup = IF recent = offline.store
                           THEN [pc |-> "idle", recentLocations |-> {}]
                           ELSE [pc |-> "clearLocations",
                                 recentLocations |-> recent]]
    /\ UNCHANGED exceptOffline

\* await offlineStorage.clearLocations() of the cleanup.
CleanupClearLocations ==
    /\ offline.cleanup.pc = "clearLocations"
    /\ offline' = [offline EXCEPT
           !.store = clearLocations(@),
           !.cleanup.pc = IF offline.cleanup.recentLocations = {}
                          THEN "idle" ELSE "addLocation"]
    /\ UNCHANGED exceptOffline

\* One turn of the loop that adds the recent rows again, in key order.
CleanupAddLocation ==
    /\ offline.cleanup.pc = "addLocation"
    /\ LET location == CHOOSE l \in offline.cleanup.recentLocations :
                           \A m \in offline.cleanup.recentLocations : l.id <= m.id
           rest == offline.cleanup.recentLocations \ {location}
       IN  offline' = [offline EXCEPT
               !.store = addLocation(@, location),
               !.cleanup = [pc |-> IF rest = {} THEN "idle" ELSE "addLocation",
                            recentLocations |-> rest]]
    /\ UNCHANGED exceptOffline

\* The client's clock advances.
ClockStep ==
    /\ offline.steps < MaxClockSteps
    /\ offline' = [offline EXCEPT !.clock = @ + DayStep, !.steps = @ + 1]
    /\ UNCHANGED exceptOffline

----------------------------------------------------------------------------
(* The geolocation hook useGeolocation.  Its clock counts seconds; the k-th
   position the browser delivers has the coordinates k. *)

Throttle == 30

\* Date.now() when the hook is mounted; lastSyncRef starts at 0.
EpochStart == 100

Positions == 1..MaxPositions

InitGeolocation ==
    [isTracking |-> FALSE,
     watchIdRef |-> NULL,
     watching |-> {},
     nextWatchId |-> 1,
     initialPending |-> 0,
     location |-> NULL,
     lastSyncRef |-> 0,
     clock |-> EpochStart,
     steps |-> 0,
     received |-> 0,
     requests |-> {},
     accepted |-> {},
     submissions |-> <<>>,
     enqueued |-> <<>>,
     lastCall |-> "none"]

exceptHooks == <<serverVars, probe, apiCache, wsClient>>

\* The call addOfflineLocation(location) of the hook, on the offline store.
Enqueue(off) ==
    [off EXCEPT
        !.store = addLocation(@, OfflineLocation(off.nextKey, off.clock)),
        !.nextKey = @ + 1]

\* The call syncOfflineData() of the hook, up to its first await.
StartSync(off) ==
    IF off.sync.pc \in {"getLocations", "request"}
    THEN off
    ELSE [off EXCEPT
             !.sync = [pc |-> IF off.online THEN "getLocations" ELSE "skipped",
                       locations |-> {}]]

\* A variant of the throttle in which a position passes at 30 seconds already.
PassesThrottleInclusive(clock, lastSync) == clock - lastSync >= Throttle

\* The throttle of handleLocationSuccess: now - lastSyncRef.current > 30000.
PassesThrottle(clock, lastSync) == clock - lastSync > Throttle

\* startTracking: nothing happens while watchIdRef holds a watch; otherwise
\* isTracking is set, one position is requested and a watch is registered.
startTracking ==
    /\ geo.watchIdRef = NULL => geo.nextWatchId <= MaxWatches
    /\ geo' = IF geo.watchIdRef # NULL
              THEN [geo EXCEPT !.lastCall = "startTracking"]
              ELSE [geo EXCEPT
                       !.isTracking = TRUE,
                       !.initialPending = @ + 1,
                       !.watchIdRef = geo.nextWatchId,
                       !.watching = @ \cup {geo.nextWatchId},
                       !.nextWatchId = @ + 1,
                       !.lastCall = "startTracking"]
    /\ UNCHANGED <<offline, exceptHooks>>

\* stopTracking: the watch of watchIdRef is cleared, isTracking is unset.
stopTracking ==
    /\ geo' = [geo EXCEPT
           !.watching = @ \ {geo.watchIdRef},
           !.watchIdRef = NULL,
           !.isTracking = FALSE,
           !.lastCall = "stopTracking"]
    /\ UNCHANGED <<offline, exceptHooks>>

\* A callback is due from the registered watch or from a pending
\* getCurrentPosition.
CallbackDue(source) ==
    \/ source = "watch" /\ geo.watching # {}
    \/ source = "initial" /\ geo.initialPending > 0

\* handleLocationSuccess: the state takes the new position; a position that
\* passes the throttle is posted when online and stored offline otherwise.
handleLocationSuccess ==
    \E source \in {"watch", "initial"} :
        /\ CallbackDue(source)
        /\ geo.received < MaxPositions
        /\ LET position == geo.received + 1
               passes == PassesThrottle(geo.clock, geo.lastSyncRef)
               submission == [position |-> position, at |-> geo.clock]
           IN  /\ geo' = [geo EXCEPT
                      !.location = position,
                      !.received = position,
                      !.initialPending = IF source = "initial" THEN @ - 1 ELSE @,
                      !.lastSyncRef = IF passes THEN geo.clock ELSE @,
                      !.submissions = IF passes THEN Append(@, submission) ELSE @,
                      !.requests = IF passes /\ offline.online
                                   THEN @ \cup {position} ELSE @,
                      !.enqueued = IF passes /\ ~offline.online
                                   THEN Append(@, [request |-> position,
                                                   latitude |-> position])
                                   ELSE @,
                      !.lastCall = "position"]
               /\ offline' = IF passes /\ ~offline.online
                             THEN Enqueue(offline) ELSE offline
        /\ UNCHANGED exceptHooks

\* handleLocationError: isTracking is unset; the watch and watchIdRef stay.
handleLocationError ==
    \E source \in {"watch", "initial"} :
        /\ CallbackDue(source)
        /\ geo' = [geo EXCEPT
               !.isTracking = FALSE,
               !.initialPending = IF source = "initial" THEN @ - 1 ELSE @,
               !.lastCall = "error"]
        /\ UNCHANGED <<offline, exceptHooks>>

\* locationMutation.onSuccess: the server accepted the POST; the offline
\* data is synced.
LocationAccepted ==
    \E position \in geo.requests :
        /\ geo' = [geo EXCEPT
               !.requests = @ \ {position},
               !.accepted = @ \cup {position}]
        /\ offline' = StartSync(offline)
        /\ UNCHANGED exceptHooks

\* locationMutation.onError: the POST failed (a network error, the service
\* worker's 503 or another non-success response); state.location is stored
\* offline.
LocationFailed ==
    \E position \in geo.requests :
        /\ geo' = [geo EXCEPT
               !.requests = @ \ {position},
               !.enqueued = IF geo.location # NULL
                            THEN Append(@, [request |-> position,
                                            latitude |-> geo.location])
                            ELSE @]
        /\ offline' = IF geo.location # NULL THEN Enqueue(offline) ELSE offline
        /\ UNCHANGED exceptHooks

\* The hook's clock advances.
GeoClockStep ==
    /\ geo.steps < MaxGeoSteps
    /\ geo' = [geo EXCEPT !.clock = @ + GeoStep, !.steps = @ + 1]
    /\ UNCHANGED <<offline, exceptHooks>>

----------------------------------------------------------------------------
(* The service worker's handling of API requests (public/sw.js).  A
   pathname is a route and the id that follows it, or NULL; a response to
   a GET is known by the version of the server's data it shows. *)

CACHEABLE_API_ROUTES == {"/api/geofences", "/api/devices", "/api/stats"}

FetchIds == 1..MaxFetches

Pathname(route, id) == [route |-> route, id |-> id]

\* pathname.startsWith(route)
StartsWith(pathname, route) == pathname.route = route

\* invalidationMap[pathname] || []: the map is looked up by the whole
\* pathname.  (Its entry for /api/events is outside the model.)
invalidationMap(pathname) ==
    IF pathname.id # NULL THEN {}
    ELSE IF pathname.route = "/api/geofences" THEN {"/api/geofences"}
    ELSE IF pathname.route = "/api/devices" THEN {"/api/devices", "/api/stats"}
    ELSE IF pathname.route = "/api/locations" THEN {"/api/stats"}
    ELSE {}

\* The lists a successful change under a route alters on the server.
Alters(route) ==
    IF route = "/api/geofences" THEN {"/api/geofences"}
    ELSE IF route = "/api/devices" THEN {"/api/devices", "/api/stats"}
    ELSE {"/api/stats"}

\* The requests of the model: the GET of a cacheable list, the POST to a
\* route, the PUT and DELETE of one of its items.
ApiRequests ==
    {[method |-> "GET", pathname |-> Pathname(route, NULL)] :
        route \in CACHEABLE_API_ROUTES}
    \cup {[method |-> "POST", pathname |-> Pathname(route, NULL)] :
        route \in {"/api/geofences", "/api/devices", "/api/locations"}}
    \cup {[method |-> method, pathname |-> Pathname(route, 1)] :
        method \in {"PUT", "DELETE"},
        route \in {"/api/geofences", "/api/devices"}}

IdleFetch ==
    [pc |-> "idle", method |-> "none", pathname |-> Pathname("none", NULL),
     cachedResponse |-> NULL, response |-> NULL, keys |-> {}]

InitApiCache ==
    [version |-> [route \in CACHEABLE_API_ROUTES |-> 0],
     entries |-> [route \in CACHEABLE_API_ROUTES |-> NULL],
     fetches |-> [f \in FetchIds |-> IdleFetch]]

exceptApiCache == <<serverVars, probe, offline, geo, wsClient>>

FetchCanStart(f) ==
    /\ apiCache.fetches[f].pc = "idle"
    /\ \A g \in FetchIds : g < f => apiCache.fetches[g].pc # "idle"

\* The fetch event of an API request: handleApiRequest up to its first
\* await (the cache lookup of a cacheable GET, the fetch of a non-GET).
handleApiRequest(f) ==
    /\ FetchCanStart(f)
    /\ \E request \in ApiRequests :
           apiCache' = [apiCache EXCEPT
               !.fetches[f] = [IdleFetch EXCEPT
                   !.pc = IF request.method = "GET" THEN "match" ELSE "fetch",
                   !.method = request.method,
                   !.pathname = request.pathname]]
    /\ UNCHANGED exceptApiCache

\* staleWhileRevalidate: cache.match resolves and the fetch is issued; a
\* cached response is returned at once.
SwrMatch(f) ==
    /\ apiCache.fetches[f].pc = "match"
    /\ apiCache' = [apiCache EXCEPT
           !.fetches[f].cachedResponse =
               apiCache.entries[apiCache.fetches[f].pathname.route],
           !.fetches[f].pc = "fetch"]
    /\ UNCHANGED exceptApiCache

\* The server answers the GET with the present data.
SwrServerReply(f) ==
    /\ apiCache.fetches[f].pc = "fetch"
    /\ apiCache.fetches[f].method = "GET"
    /\ apiCache' = [apiCache EXCEPT
           !.fetches[f].response =
               apiCache.version[apiCache.fetches[f].pathname.route],
           !.fetches[f].pc = "put"]
    /\ UNCHANGED exceptApiCache

\* The fetch of the GET fails: the failure is logged.
SwrFetchFails(f) ==
    /\ apiCache.fetches[f].pc = "fetch"
    /\ apiCache.fetches[f].method = "GET"
    /\ apiCache' = [apiCache EXCEPT !.fetches[f].pc = "done"]
    /\ UNCHANGED exceptApiCache

\* The response of the GET arrives: cache.put(request, response.clone()).
SwrPut(f) ==
    /\ apiCache.fetches[f].pc = "put"
    /\ apiCache' = [apiCache EXCEPT
           !.entries[apiCache.fetches[f].pathname.route] =
               apiCache.fetches[f].response,
           !.fetches[f].pc = "done"]
    /\ UNCHANGED exceptApiCache

\* The server carries out the non-GET request and answers ok: the lists
\* under its route change; the handler goes on to invalidateRelatedCache.
MutationSucceeds(f) ==
    /\ apiCache.fetches[f].pc = "fetch"
    /\ apiCache.fetches[f].method # "GET"
    /\ LET route == apiCache.fetches[f].pathname.route
           version == [r \in CACHEABLE_API_ROUTES |->
                          IF r \in Alters(route)
                          THEN apiCache.version[r] + 1
                          ELSE apiCache.version[r]]
       IN  apiCache' = [apiCache EXCEPT
               !.version = version,
               !.fetches[f].response =
                   IF route \in CACHEABLE_API_ROUTES THEN version[route] ELSE 0,
               !.fetches[f].pc = "keys"]
    /\ UNCHANGED exceptApiCache

\* The non-GET request fails (no network, or a response that is not ok):
\* nothing changes on the server and nothing is invalidated.
MutationFails(f) ==
    /\ apiCache.fetches[f].pc = "fetch"
    /\ apiCache.fetches[f].method # "GET"
    /\ apiCache' = [apiCache EXCEPT !.fetches[f].pc = "done"]
    /\ UNCHANGED exceptApiCache

\* The keys of the API cache that invalidateRelatedCache(pathname) deletes.
KeysToDelete(entries, pathname) ==
    {key \in CACHEABLE_API_ROUTES :
        /\ entries[key] # NULL
        /\ \E route \in invalidationMap(pathname) :
               StartsWith(Pathname(key, NULL), route)}

\* invalidateRelatedCache: cache.keys() resolves.
InvalidateKeys(f) ==
    /\ apiCache.fetches[f].pc = "keys"
    /\ LET keys == KeysToDelete(apiCache.entries, apiCache.fetches[f].pathname)
       IN  apiCache' = [apiCache EXCEPT
               !.fetches[f].keys = keys,
               !.fetches[f].pc = IF keys = {} THEN "done" ELSE "delete"]
    /\ UNCHANGED exceptApiCache

\* invalidateRelatedCache: one await cache.delete(key) of the loop.
InvalidateDelete(f) ==
    /\ apiCache.fetches[f].pc = "delete"
    /\ \E key \in apiCache.fetches[f].keys :
           LET rest == apiCache.fetches[f].keys \ {key}
           IN  apiCache' = [apiCache EXCEPT
                   !.entries[key] = NULL,
                   !.fetches[f].keys = rest,
                   !.fetches[f].pc = IF rest = {} THEN "done" ELSE "delete"]
    /\ UNCHANGED exceptApiCache

----------------------------------------------------------------------------
(* The WebSocket clients: the hook useWebSocket ("hook") and the class
   WebSocketManager ("manager").  The socket held in wsRef / this.ws is the
   current one; a socket the client no longer holds lives on with its
   handlers until it has closed. *)

maxReconnectAttempts == 5

NORMAL_CLOSURE == 1000
ABNORMAL_CLOSURE == 1006

NoOrphans == [connecting |-> 0, open |-> 0, clean |-> 0, abnormal |-> 0]

WsClient(kind) ==
    [kind |-> kind,
     current |-> "none",
     orphans |-> NoOrphans,
     reconnectAttempts |-> 0,
     isConnecting |-> FALSE,
     refTimer |-> FALSE,
     otherTimers |-> 0,
     explicit |-> "none"]

InitWsClient == WsClient("hook")

exceptWsClient == <<serverVars, probe, offline, geo, apiCache>>

NumOrphans(ws) ==
    ws.orphans.connecting + ws.orphans.open + ws.orphans.clean + ws.orphans.abnormal

PendingTimers(ws) == ws.otherTimers + (IF ws.refTimer THEN 1 ELSE 0)

\* connect(): the hook returns when its socket is open, the manager also
\* while isConnecting; otherwise a new socket replaces the one held.
connect(ws) ==
    IF \/ ws.current = "OPEN"
       \/ ws.kind = "manager" /\ ws.isConnecting
    THEN ws
    ELSE [ws EXCEPT
             !.current = "CONNECTING",
             !.isConnecting = (ws.kind = "manager"),
             !.orphans.connecting =
                 IF ws.current = "CONNECTING" THEN @ + 1 ELSE @]

\* setTimeout of onclose: the hook keeps the handle of the latest timer in
\* reconnectTimeoutRef, the manager keeps none.
schedule(ws) ==
    IF ws.kind = "hook"
    THEN [ws EXCEPT
             !.refTimer = TRUE,
             !.otherTimers = IF ws.refTimer THEN @ + 1 ELSE @]
    ELSE [ws EXCEPT !.otherTimers = @ + 1]

\* onclose: a reconnect is scheduled unless the closure was normal or the
\* attempts are used up.
onclose(ws, code) ==
    LET closed == [ws EXCEPT !.isConnecting = FALSE]
    IN  IF code # NORMAL_CLOSURE /\ ws.reconnectAttempts < maxReconnectAttempts
        THEN schedule(closed)
        ELSE closed

\* onopen: the counter returns to 0.
onopen(ws) == [ws EXCEPT !.reconnectAttempts = 0, !.isConnecting = FALSE]

CanAdopt(ws) ==
    /\ NumOrphans(ws) <= MaxOrphans
    /\ PendingTimers(ws) <= MaxTimers

\* connect() called by the application (on mount, on visibility change).
Connect ==
    /\ CanAdopt(connect(wsClient))
    /\ wsClient' = [connect(wsClient) EXCEPT !.explicit = "connect"]
    /\ UNCHANGED exceptWsClient

\* The current socket opens.
SocketOpens ==
    /\ wsClient.current = "CONNECTING"
    /\ wsClient' = onopen([wsClient EXCEPT !.current = "OPEN"])
    /\ UNCHANGED exceptWsClient

\* The current socket fails to connect or loses its connection.
SocketFails ==
    /\ wsClient.current \in {"CONNECTING", "OPEN"}
    /\ LET ws == onclose([wsClient EXCEPT !.current = "CLOSED"], ABNORMAL_CLOSURE)
       IN  /\ CanAdopt(ws)
           /\ wsClient' = ws
    /\ UNCHANGED exceptWsClient

\* A socket that was replaced while connecting opens.
OrphanOpens ==
    /\ wsClient.orphans.connecting > 0
    /\ wsClient' = onopen([wsClient EXCEPT
           !.orphans.connecting = @ - 1,
           !.orphans.open = @ + 1])
    /\ UNCHANGED exceptWsClient

\* A socket the client no longer holds closes: with the code of close()
\* when it was open at that call, abnormally otherwise.
OrphanCloses ==
    \E state \in {"connecting", "open", "clean", "abnormal"} :
        /\ wsClient.orphans[state] > 0
        /\ LET ws == onclose([wsClient EXCEPT !.orphans[state] = @ - 1],
                             IF state = "clean"
                             THEN NORMAL_CLOSURE ELSE ABNORMAL_CLOSURE)
           IN  /\ CanAdopt(ws)
               /\ wsClient' = ws
        /\ UNCHANGED exceptWsClient

\* A reconnect timer fires: reconnectAttempts++ and connect().
ReconnectTimer ==
    \E timer \in {"ref", "other"} :
        /\ timer = "ref" => wsClient.refTimer
        /\ timer = "other" => wsClient.otherTimers > 0
        /\ LET fired == IF timer = "ref"
                        THEN [wsClient EXCEPT !.refTimer = FALSE]
                        ELSE [wsClient EXCEPT !.otherTimers = @ - 1]
               ws == connect([fired EXCEPT !.reconnectAttempts = @ + 1])
           IN  /\ CanAdopt(ws)
               /\ wsClient' = ws
        /\ UNCHANGED exceptWsClient

\* disconnect(): the hook clears the timer of reconnectTimeoutRef; the
\* socket held is closed with code 1000 and let go.  A socket closed while
\* connecting fails, and its close event carries the abnormal code.
Disconnect ==
    /\ LET cleared == IF wsClient.kind = "hook"
                      THEN [wsClient EXCEPT !.refTimer = FALSE]
                      ELSE wsClient
           ws == [cleared EXCEPT
                     !.current = "none",
                     !.orphans.clean =
                         IF wsClient.current = "OPEN" THEN @ + 1 ELSE @,
                     !.orphans.abnormal =
                         IF wsClient.current = "CONNECTING" THEN @ + 1 ELSE @,
                     !.explicit = "disconnect"]
       IN  /\ CanAdopt(ws)
           /\ wsClient' = ws
    /\ UNCHANGED exceptWsClient

InitClient ==
    /\ offline = InitOffline
    /\ geo = InitGeolocation
    /\ apiCache = InitApiCache
    /\ wsClient = InitWsClient

----------------------------------------------------------------------------
(* The specifications *)

InitServer ==
    /\ now = 0
    /\ geofences = InitGeofences
    /\ locations = <<>>
    /\ geofenceEvents = <<>>
    /\ lastSeen = [d \in Devices |-> NULL]
    /\ broadcasts = <<>>
    /\ calls = [c \in CallIds |-> IdleCall]
    /\ connections = [ws \in Sockets |-> "OPEN"]

Init == InitServer /\ InitClient /\ probe = NoProbe

Next ==
    \/ Tick
    \/ \E c \in CallIds : PostLocation(c)
    \/ \E c \in CallIds : LiveCreateLocation(c)
    \/ \E c \in CallIds : LiveUpdateLastSeen(c)
    \/ \E c \in CallIds : LiveGetActiveGeofences(c)
    \/ \E c \in CallIds : LiveCreateEvent(c)
    \/ \E c \in CallIds : LiveBroadcastEvent(c)
    \/ \E c \in CallIds : LiveRespond(c)
    \/ \E c \in CallIds : PostSync(c)
    \/ \E c \in CallIds : SyncInsert(c)
    \/ \E c \in CallIds : SyncRespond(c)

Spec == Init /\ [][Next]_vars

(* One live report while geofences are edited and time passes *)
NextAdmin ==
    \/ Tick
    \/ \E id \in GeofenceIds : UpdateGeofence(id)
    \/ \E c \in CallIds : NoCallYet /\ PostLocation(c)
    \/ \E c \in CallIds : LiveCreateLocation(c)
    \/ \E c \in CallIds : LiveUpdateLastSeen(c)
    \/ \E c \in CallIds : LiveGetActiveGeofences(c)
    \/ \E c \in CallIds : LiveCreateEvent(c)
    \/ \E c \in CallIds : LiveBroadcastEvent(c)
    \/ \E c \in CallIds : LiveRespond(c)
    \/ \E c \in CallIds : LiveEvalRaises(c)

SpecAdmin == Init /\ [][NextAdmin]_vars

(* One call, with requests that do not parse, storage operations that      *)
(* reject and subscribers that come and go                                  *)
NextFaults ==
    \/ \E c \in CallIds : NoCallYet /\ PostLocation(c)
    \/ \E c \in CallIds : NoCallYet /\ PostLocationOutOfRange(c)
    \/ \E c \in CallIds : NoCallYet /\ PostLocationInvalid(c)
    \/ \E c \in CallIds : LiveCreateLocation(c)
    \/ \E c \in CallIds : LiveCreateLocationFails(c)
    \/ \E c \in CallIds : LiveUpdateLastSeen(c)
    \/ \E c \in CallIds : LiveGetActiveGeofences(c)
    \/ \E c \in CallIds : LiveCreateEvent(c)
    \/ \E c \in CallIds : LiveBroadcastEvent(c)
    \/ \E c \in CallIds : LiveRespond(c)
    \/ \E c \in CallIds : LiveStorageFails(c)
    \/ \E c \in CallIds : NoCallYet /\ PostSync(c)
    \/ \E c \in CallIds : NoCallYet /\ PostSyncInvalid(c)
    \/ \E c \in CallIds : SyncInsert(c)
    \/ \E c \in CallIds : SyncInsertFails(c)
    \/ \E c \in CallIds : SyncRespond(c)
    \/ \E ws \in Sockets : SocketConnect(ws)
    \/ \E ws \in Sockets : SocketClosing(ws)
    \/ \E ws \in Sockets : SocketClose(ws)
    \/ \E ws \in Sockets : SocketError(ws)

SpecFaults == Init /\ [][NextFaults]_vars

(* The containment test applied once to drawn arguments *)
InitGeometry == InitServer /\ InitClient /\ probe \in ProbeInputs

NextGeometry == EvalPolygon \/ EvalCircle

SpecGeometry == InitGeometry /\ [][NextGeometry]_vars

(* The client's offline store alone: locations are queued, synced and
   cleaned up while the connectivity and the clock change. *)
NextOffline ==
    \/ addOfflineLocation
    \/ SyncSkippedOffline
    \/ syncOfflineData
    \/ SyncGetLocations
    \/ SyncSuccess
    \/ SyncError
    \/ handleOffline
    \/ handleOnline
    \/ cleanupOldData
    \/ CleanupGetLocations
    \/ CleanupClearLocations
    \/ CleanupAddLocation
    \/ ClockStep

SpecOffline == Init /\ [][NextOffline]_vars

(* The geolocation hook with the requests it posts, the offline store it
   feeds and the sync it starts. *)
NextGeolocation ==
    \/ startTracking
    \/ stopTracking
    \/ handleLocationSuccess
    \/ handleLocationError
    \/ LocationAccepted
    \/ LocationFailed
    \/ GeoClockStep
    \/ handleOffline
    \/ handleOnline
    \/ SyncGetLocations
    \/ SyncSuccess
    \/ SyncError

SpecGeolocation == Init /\ [][NextGeolocation]_vars

(* The service worker's API requests alone. *)
NextApiCache ==
    \E f \in FetchIds :
        \/ handleApiRequest(f)
        \/ SwrMatch(f)
        \/ SwrServerReply(f)
        \/ SwrFetchFails(f)
        \/ SwrPut(f)
        \/ MutationSucceeds(f)
        \/ MutationFails(f)
        \/ InvalidateKeys(f)
        \/ InvalidateDelete(f)

SpecApiCache == Init /\ [][NextApiCache]_vars

(* The WebSocket clients alone: either the hook or the manager, with the
   application's calls, the sockets' events and the reconnect timers. *)
InitWebSocket ==
    /\ InitServer
    /\ probe = NoProbe
    /\ offline = InitOffline
    /\ geo = InitGeolocation
    /\ apiCache = InitApiCache
    /\ wsClient \in {WsClient("hook"), WsClient("manager")}

NextWebSocket ==
    \/ Connect
    \/ SocketOpens
    \/ SocketFails
    \/ OrphanOpens
    \/ OrphanCloses
    \/ ReconnectTimer
    \/ Disconnect

SpecWebSocket == InitWebSocket /\ [][NextWebSocket]_vars

----------------------------------------------------------------------------
(* What the claims speak of *)

(* The events of a (device, geofence) pair ordered by occurredAt.  The     *)
(* table is in insertion order, timestamps never decrease along it, and    *)
(* equal timestamps are ordered by id.                                      *)
EventsOfPair(events, d, g) ==
    SelectSeq(events, LAMBDA e : e.deviceId = d /\ e.geofenceId = g)

(* The latest state of a pair is inside: an Entry and no later Exit. *)
IsInside(events, d, g) ==
    LET es == EventsOfPair(events, d, g)
    IN  es # <<>> /\ es[Len(es)].eventType = "entry"

(* The steps of call c *)
StoresLocation(c) ==
    calls[c].pc = "createLocation" /\ calls'[c].pc = "updateDeviceLastSeen"

CreatesEvent(c) ==
    calls[c].pc = "loop" /\ calls'[c].pc = "broadcastEvent"

Responds(c) ==
    calls[c].route = "live" /\ calls[c].pc = "loop" /\ calls'[c].pc = "done"

InsertsBatch(c) ==
    calls[c].pc = "syncOfflineLocations" /\ calls'[c].pc = "respond"

(* The report of live call c was stored after another live call had stored *)
(* a report of the same device and observedAt.                              *)
IsResubmission(c) ==
    /\ calls[c].route = "live" /\ calls[c].locationId # NULL
    /\ \E b \in CallIds \ {c} :
         /\ calls[b].route = "live" /\ calls[b].locationId # NULL
         /\ calls[b].locationId < calls[c].locationId
         /\ calls[b].body.deviceId = calls[c].body.deviceId
         /\ calls[b].body.timestamp = calls[c].body.timestamp

(* No other call is in flight while call c runs. *)
RunsAlone(c) == \A b \in CallIds \ {c} : calls[b].pc \in {"idle", "done"}

(* The batch of sync call c has been applied by another call already. *)
IsAppliedBatch(c) ==
    \E b \in CallIds \ {c} :
        /\ calls[b].route = "sync" /\ calls[b].pc \in {"respond", "done"}
        /\ calls[b].batch = calls[c].batch

(* The report of live call c lies outside geofence row g, which is still   *)
(* active, and the pair is inside since an Entry older than the report.     *)
LeavesGeofence(c, g) ==
    /\ g.id \in ActiveIds
    /\ ~isPointInGeofence(ReportPoint(calls[c].body), g.coordinates)
    /\ IsInside(geofenceEvents, calls[c].body.deviceId, g.id)
    /\ LET es == EventsOfPair(geofenceEvents, calls[c].body.deviceId, g.id)
       IN  es[Len(es)].timestamp < calls[c].body.timestamp

ExitsAt(events, d, g, t) ==
    {k \in 1..Len(events) :
        /\ events[k].deviceId = d /\ events[k].geofenceId = g
        /\ events[k].eventType = "exit" /\ events[k].timestamp = t}

(* A batch body in ascending observedAt order (insertion sort, stable) *)
RECURSIVE InsertSorted(_, _)
InsertSorted(sorted, body) ==
    IF sorted = <<>> THEN <<body>>
    ELSE IF Head(sorted).timestamp <= body.timestamp
    THEN <<Head(sorted)>> \o InsertSorted(Tail(sorted), body)
    ELSE <<body>> \o sorted

RECURSIVE SortByObservedAt(_)
SortByObservedAt(batch) ==
    IF batch = <<>> THEN <<>>
    ELSE InsertSorted(SortByObservedAt(Tail(batch)), Head(batch))

(* The event types live ingestion adds for geofence row g when it is given *)
(* the reports one by one: the loop of POST /api/locations creates one      *)
(* entry for each report that g contains.                                   *)
RECURSIVE LiveEventTypes(_, _)
LiveEventTypes(reports, g) ==
    IF reports = <<>> THEN <<>>
    ELSE (IF NextContaining(<<g>>, ReportPoint(insertLocationSchema(Head(reports))), 1) # 0
          THEN <<"entry">> ELSE <<>>)
         \o LiveEventTypes(Tail(reports), g)

(* The types of the events a step adds for a pair *)
AddedEventTypes(d, g) ==
    LET es == EventsOfPair(SubSeq(geofenceEvents', Len(geofenceEvents) + 1,
                                  Len(geofenceEvents')), d, g)
    IN  [k \in 1..Len(es) |-> es[k].eventType]

----------------------------------------------------------------------------
(* The claims *)

(* C1: for every (deviceId, geofenceId) pair the persisted events, ordered *)
(* by occurredAt, alternate Entry, Exit, Entry, ... starting with Entry.    *)
C1_Alternation ==
    \A d \in Devices, g \in GeofenceIds :
        LET es == EventsOfPair(geofenceEvents, d, g)
        IN  \A k \in 1..Len(es) :
                es[k].eventType = IF k % 2 = 1 THEN "entry" ELSE "exit"

(* C2: a live call whose report (same deviceId and observedAt) was already *)
(* processed is a no-op: none of its steps adds a geofence event or         *)
(* publishes a message (already when the calls run one after the other).    *)
C2_LiveIdempotent ==
    [][\A c \in CallIds :
          IsResubmission(c) /\ RunsAlone(c) /\ calls'[c] # calls[c]
              => geofenceEvents' = geofenceEvents /\ broadcasts' = broadcasts]_vars

(* C3: when a pair is inside and a later report of the device lies outside *)
(* the still-active geofence, the live call of that report has emitted      *)
(* exactly one Exit of the pair, with occurredAt = observedAt, when it      *)
(* returns.                                                                 *)
C3_ExitEmitted ==
    [][\A c \in CallIds :
          Responds(c) =>
              \A k \in 1..Len(calls[c].snapshot) :
                  LeavesGeofence(c, calls[c].snapshot[k]) =>
                      Cardinality(ExitsAt(geofenceEvents', calls[c].body.deviceId,
                                          calls[c].snapshot[k].id,
                                          calls[c].body.timestamp)) = 1]_vars

(* C4: a report whose containment in a geofence equals the pair's current  *)
(* membership emits no event for that geofence: whenever a live call        *)
(* creates an event, containment and membership differed (already when the *)
(* calls run one after the other).                                          *)
C4_NoEventWithoutChange ==
    [][\A c \in CallIds :
          CreatesEvent(c) /\ RunsAlone(c) =>
              LET e == geofenceEvents'[Len(geofenceEvents')]
              IN  isPointInGeofence(ReportPoint(calls[c].body),
                                    geofences[e.geofenceId].coordinates)
                      # IsInside(geofenceEvents, e.deviceId, e.geofenceId)]_vars

(* C5: a batch call yields, for every pair, the events (types, in order)   *)
(* that live ingestion of the same reports in ascending observedAt order    *)
(* yields from the same state.                                              *)
C5_BatchEqualsLive ==
    [][\A c \in CallIds :
          InsertsBatch(c) /\ calls[c].batch # <<>> =>
              \A g \in ActiveIds :
                  AddedEventTypes(calls[c].batch[1].deviceId, g)
                      = LiveEventTypes(SortByObservedAt(calls[c].batch), geofences[g])]_vars

(* C6: re-submitting a batch that was already applied leaves the stored    *)
(* location records and the event log as they were.                         *)
C6_BatchIdempotent ==
    [][\A c \in CallIds :
          InsertsBatch(c) /\ IsAppliedBatch(c)
              => locations' = locations /\ geofenceEvents' = geofenceEvents]_vars

(* C7: an Entry at T0 followed by the pair's Exit at T1 gives an Exit      *)
(* event with durationMinutes = floor((T1 - T0) / 60 s); Entry events       *)
(* carry no duration.                                                       *)
C7_ExitDuration ==
    [][/\ \A k \in 1..Len(geofenceEvents') :
             geofenceEvents'[k].eventType = "entry" => geofenceEvents'[k].duration = NULL
       /\ \A c \in CallIds :
             Responds(c) =>
                 \A k \in 1..Len(calls[c].snapshot) :
                     LeavesGeofence(c, calls[c].snapshot[k]) =>
                         LET d  == calls[c].body.deviceId
                             g  == calls[c].snapshot[k].id
                             es == EventsOfPair(geofenceEvents, d, g)
                             T0 == es[Len(es)].timestamp
                             T1 == calls[c].body.timestamp
                         IN  \E x \in ExitsAt(geofenceEvents', d, g, T1) :
                                 geofenceEvents'[x].duration = (T1 - T0) \div 60]_vars

(* C8: every event's occurredAt and every stored location's timestamp is   *)
(* the observedAt the client supplied with the report, on the live route    *)
(* and on the sync route.                                                   *)
C8_ClientTimeKept ==
    [][\A c \in CallIds :
          /\ StoresLocation(c) =>
                locations'[Len(locations')].timestamp = calls[c].body.timestamp
          /\ CreatesEvent(c) =>
                geofenceEvents'[Len(geofenceEvents')].timestamp = calls[c].body.timestamp
          /\ InsertsBatch(c) =>
                \A k \in 1..Len(calls[c].batch) :
                    locations'[Len(locations) + k].timestamp
                        = calls[c].batch[k].timestamp]_vars

----------------------------------------------------------------------------
(* The containment test against its specification *)

(* Point p lies on the segment from vertex a to vertex b ([lng, lat]). *)
OnSegment(p, a, b) ==
    /\ (b[1] - a[1]) * (p.lat - a[2]) = (b[2] - a[2]) * (p.lng - a[1])
    /\ (p.lng - a[1]) * (p.lng - b[1]) <= 0
    /\ (p.lat - a[2]) * (p.lat - b[2]) <= 0

OnEdge(p, ring) ==
    \E i \in 1..Len(ring) :
        OnSegment(p, ring[i], ring[IF i = 1 THEN Len(ring) ELSE i - 1])

(* Edge (i, j) crosses the ray from p towards greater longitude, with      *)
(* longitude as x and latitude as y.                                        *)
RayCrossesEdge(p, ring, i, j) ==
    LET xi == ring[i][1]
        yi == ring[i][2]
        xj == ring[j][1]
        yj == ring[j][2]
    IN  /\ (yi > p.lat) # (yj > p.lat)
        /\ IF yj - yi > 0
           THEN (p.lng - xi) * (yj - yi) < (xj - xi) * (p.lat - yi)
           ELSE (p.lng - xi) * (yj - yi) > (xj - xi) * (p.lat - yi)

(* The ray-casting parity of p in the ring *)
RayCastingParity(p, ring) ==
    Cardinality({i \in 1..Len(ring) :
                    RayCrossesEdge(p, ring, i, IF i = 1 THEN Len(ring) ELSE i - 1)}) % 2 = 1

IsRectangle(ring) == Len(ring) = 5

(* Strictly within the rectangle's latitude and longitude ranges *)
WithinRectangle(p, ring) ==
    /\ ring[1][1] < p.lng /\ p.lng < ring[3][1]
    /\ ring[1][2] < p.lat /\ p.lat < ring[3][2]

(* The distance of an aligned pair: the difference along the common        *)
(* meridian or along the equator                                            *)
ArcDistance(p, center) == Abs(p.lat - center[2]) + Abs(p.lng - center[1])

(* C9: for a polygon ring of [lng, lat] vertices and a point not on an     *)
(* edge, the test returns the ray-casting parity with longitude as x and    *)
(* latitude as y; for a rectangle, whether the point is within its          *)
(* latitude and longitude ranges.                                           *)
C9_PolygonParity ==
    (probe.done /\ probe.geofence.type = "Polygon"
        /\ ~OnEdge(probe.point, probe.geofence.ring))
    => /\ probe.inside = RayCastingParity(probe.point, probe.geofence.ring)
       /\ IsRectangle(probe.geofence.ring)
             => probe.inside = WithinRectangle(probe.point, probe.geofence.ring)

(* C10: for a circle of radius R > 0 a point is contained iff its distance *)
(* from the centre is at most R: the centre is contained, a point at        *)
(* distance R + 1 is not.                                                   *)
C10_CircleContainment ==
    (probe.done /\ probe.geofence.type = "Point" /\ probe.geofence.radius > 0)
    => LET dist == ArcDistance(probe.point, probe.geofence.center)
       IN  /\ probe.inside = (dist <= probe.geofence.radius)
           /\ dist = 0 => probe.inside
           /\ dist = probe.geofence.radius + 1 => ~probe.inside

(* A point on the circle's boundary, away from the centre, is contained. *)
C10_Witness ==
    /\ probe.done /\ probe.geofence.type = "Point" /\ probe.geofence.radius > 0
    /\ ArcDistance(probe.point, probe.geofence.center) = probe.geofence.radius
    /\ probe.point.lat # probe.geofence.center[2]
    /\ probe.inside

(* A shape without an area *)
IsDegenerate(geofence) ==
    \/ geofence.type = "Polygon" /\ (~geofence.hasRing \/ Len(geofence.ring) < 3)
    \/ geofence.type = "Point" /\ geofence.radius <= 0

(* C11: for every degenerate shape (a ring of 0, 1 or 2 vertices or no     *)
(* ring, a radius <= 0 or no radius) and every point, the containment test  *)
(* returns false and raises no error.                                       *)
C11_DegenerateFalse ==
    (probe.done /\ IsDegenerate(probe.geofence))
    => ~probe.inside /\ ~probe.raised

(* A geofence row is active at time T. *)
ActiveAt(row, T) ==
    row.isActive /\ (row.expiresAt = NULL \/ row.expiresAt > T)

SnapshotIds(snapshot) == {snapshot[k].id : k \in 1..Len(snapshot)}

ReadsSnapshot(c) ==
    calls[c].pc = "getActiveGeofences" /\ calls'[c].pc = "loop"

(* C12: the snapshot a live call reads holds exactly the rows that are      *)
(* active at the server's time of the read (isActive, and expiresAt absent  *)
(* or later), whatever the report's observedAt; the call keeps it as read   *)
(* and creates events only for geofences of it.                             *)
C12_ActiveSnapshot ==
    [][\A c \in CallIds :
          /\ ReadsSnapshot(c) =>
                LET rows == calls'[c].snapshot
                IN  /\ SnapshotIds(rows)
                          = {id \in GeofenceIds : ActiveAt(geofences[id], now)}
                    /\ Len(rows) = Cardinality(SnapshotIds(rows))
                    /\ \A k \in 1..Len(rows) : rows[k] = geofences[rows[k].id]
          /\ calls[c].pc \in {"loop", "broadcastEvent"} =>
                calls'[c].snapshot = calls[c].snapshot
          /\ CreatesEvent(c) =>
                \E k \in 1..Len(calls[c].snapshot) :
                    /\ calls[c].snapshot[k].id
                           = geofenceEvents'[Len(geofenceEvents')].geofenceId
                    /\ calls[c].snapshot[k].isActive]_vars

(* A call has created an event for a geofence of its snapshot; the snapshot *)
(* leaves out a geofence that contains the report and expired before the   *)
(* call's last-seen update but after the report's observedAt.               *)
C12_Witness ==
    \E c \in CallIds :
        /\ calls[c].pc = "broadcastEvent"
        /\ \E id \in GeofenceIds \ SnapshotIds(calls[c].snapshot) :
              /\ geofences[id].isActive
              /\ geofences[id].expiresAt # NULL
              /\ calls[c].body.timestamp < geofences[id].expiresAt
              /\ geofences[id].expiresAt <= lastSeen[calls[c].body.deviceId]
              /\ isPointInGeofence(ReportPoint(calls[c].body), geofences[id].coordinates)

(* Call c returns its success result. *)
Succeeds(c) ==
    calls[c].pc # "done" /\ calls'[c].pc = "done" /\ calls'[c].status = 200

HasReports(c) == calls[c].route = "live" \/ calls[c].batch # <<>>

(* C13: every ingestion call, live or batch, reads the active geofences    *)
(* once and evaluates its reports against that set: a call that returns     *)
(* success for at least one report holds the snapshot it read (while no     *)
(* geofence is edited, the set that is active).                             *)
C13_SnapshotOnce ==
    [][\A c \in CallIds :
          Succeeds(c) /\ HasReports(c) =>
              SnapshotIds(calls[c].snapshot)
                  = {id \in GeofenceIds : ActiveAt(geofences[id], now)}]_vars

(* C14: a report whose observedAt is not later than the time of the last   *)
(* event recorded for a (device, geofence) pair emits no event for that     *)
(* pair: whenever a live call creates an event, the pair has no event yet   *)
(* or its last event is older than the report (already when the calls run   *)
(* one after the other).                                                    *)
C14_StaleIgnored ==
    [][\A c \in CallIds :
          CreatesEvent(c) /\ RunsAlone(c) =>
              LET e  == geofenceEvents'[Len(geofenceEvents')]
                  es == EventsOfPair(geofenceEvents, e.deviceId, e.geofenceId)
              IN  es = <<>> \/ es[Len(es)].timestamp < calls[c].body.timestamp]_vars

(* What an event says, without the id and the time the server gave it *)
EventContent(g, body) ==
    [geofenceId |-> g, eventType |-> "entry",
     latitude |-> body.latitude, longitude |-> body.longitude]

(* The events of device d in the order they were recorded *)
DeviceLog(d) ==
    LET es == SelectSeq(geofenceEvents, LAMBDA e : e.deviceId = d)
    IN  [k \in 1..Len(es) |->
            [geofenceId |-> es[k].geofenceId, eventType |-> es[k].eventType,
             latitude |-> es[k].latitude, longitude |-> es[k].longitude]]

Orders(S) ==
    {f \in [1..Cardinality(S) -> S] :
        \A a, b \in 1..Cardinality(S) : a # b => f[a] # f[b]}

(* The events live call c records when it runs alone: one entry for each   *)
(* active geofence that contains its report, in the order of its snapshot.  *)
OwnLogs(c) ==
    LET inside == {g \in ActiveIds :
                      isPointInGeofence(ReportPoint(calls[c].body),
                                        geofences[g].coordinates)}
    IN  {[k \in 1..Cardinality(inside) |-> EventContent(order[k], calls[c].body)] :
            order \in Orders(inside)}

(* The logs of the executions that run the calls one after the other *)
RECURSIVE SequentialLogs(_)
SequentialLogs(order) ==
    IF order = <<>> THEN {<<>>}
    ELSE {own \o rest : own \in OwnLogs(Head(order)),
                        rest \in SequentialLogs(Tail(order))}

(* C15: when live calls of one device have run concurrently, the device's  *)
(* event log is the log of an execution that runs the same calls one after  *)
(* the other.                                                               *)
C15_Serializable ==
    \A d \in Devices :
        (\A c \in CallIds :
            /\ calls[c].route = "live" /\ calls[c].pc = "done"
            /\ calls[c].body.deviceId = d)
        => DeviceLog(d) \in UNION {SequentialLogs(order) : order \in Orders(CallIds)}

(* Live call c ends because createLocation rejected. *)
FailsToStore(c) ==
    /\ calls[c].route = "live" /\ calls[c].pc = "createLocation"
    /\ calls'[c].pc = "done"

(* C16: when persisting the location fails in a live call, the call answers *)
(* with an error and has no effect: no location, no event, no message, no   *)
(* last-seen update, and it takes no further step.                          *)
C16_StoreFailureAtomic ==
    [][\A c \in CallIds :
          /\ FailsToStore(c) =>
                /\ calls'[c].status = 500
                /\ locations' = locations /\ geofenceEvents' = geofenceEvents
                /\ broadcasts' = broadcasts /\ lastSeen' = lastSeen
          /\ calls[c].pc = "done" => calls'[c] = calls[c]]_vars

(* A live call for a report inside a geofence failed to store it while a   *)
(* subscriber is connected: nothing was recorded or published.              *)
C16_Witness ==
    \E c \in CallIds :
        /\ calls[c].route = "live" /\ calls[c].pc = "done"
        /\ calls[c].status = 500 /\ calls[c].locationId = NULL
        /\ isPointInGeofence(ReportPoint(calls[c].body), geofences[1].coordinates)
        /\ \E ws \in Sockets : connections[ws] = "OPEN"
        /\ locations = <<>> /\ geofenceEvents = <<>> /\ broadcasts = <<>>
        /\ lastSeen[calls[c].body.deviceId] = NULL

(* No subscriber can be reached. *)
NoSubscriber == \A ws \in Sockets : connections[ws] # "OPEN"

(* The snapshot rows of live call c that contain its report *)
ContainingRows(c) ==
    {k \in 1..Len(calls[c].snapshot) :
        isPointInGeofence(ReportPoint(calls[c].body), calls[c].snapshot[k].coordinates)}

(* The loop of live call c has no geofence left that contains the report. *)
LoopFinished(c) ==
    calls[c].pc = "loop" /\ \A k \in ContainingRows(c) : k < calls[c].i

(* C17: a broadcast that reaches no subscriber does not fail the call: the *)
(* loop goes on with the next geofence after an event that could not be     *)
(* published, a call whose storage operations are over answers with         *)
(* success, and a call that answers with success has passed every geofence  *)
(* of its snapshot that contains the report.                                *)
C17_PublishFailureSwallowed ==
    [][\A c \in CallIds :
          /\ (NoSubscriber /\ calls[c].pc = "broadcastEvent" /\ calls'[c] # calls[c]) =>
                /\ calls'[c].pc = "loop" /\ calls'[c].i = calls[c].i + 1
                /\ calls'[c].status = calls[c].status
          /\ (NoSubscriber /\ calls'[c] # calls[c]
                 /\ (LoopFinished(c) \/ calls[c].pc = "respond")) =>
                /\ calls'[c].pc = "done" /\ calls'[c].status = 200
                /\ broadcasts' = broadcasts
          /\ (Succeeds(c) /\ calls[c].route = "live") => LoopFinished(c)]_vars

(* A report inside both geofences was stored, both events were created,    *)
(* and the call answered with success although no message went out.         *)
C17_Witness ==
    \E c \in CallIds :
        /\ calls[c].route = "live" /\ calls[c].pc = "done" /\ calls[c].status = 200
        /\ Cardinality(ContainingRows(c)) = 2
        /\ Len(geofenceEvents) = 2
        /\ broadcasts = <<>>

(* C18: in a batch call a report that fails validation aborts only that    *)
(* report: the call stores the reports of the batch that are valid.         *)
C18_PerReportResult ==
    [][\A c \in CallIds :
          (calls[c].pc = "idle" /\ calls'[c].route = "sync" /\ calls'[c].pc = "done") =>
              Len(locations') = Len(locations)
                  + Cardinality({k \in 1..Len(calls'[c].batch) :
                                    Parses(calls'[c].batch[k])})]_vars

(* A report the specification accepts: coordinates present, latitude in    *)
(* [-90, 90] and longitude in [-180, 180] degrees.                          *)
IsValidReport(body) ==
    /\ body.latitude # NULL /\ body.longitude # NULL
    /\ Abs(body.latitude) <= 90 * Degree
    /\ Abs(body.longitude) <= 180 * Degree

(* C19: a live call for a report with missing or out-of-range coordinates  *)
(* stores no location, creates no event, publishes nothing, and ends with   *)
(* the validation error.                                                    *)
C19_Validated ==
    [][\A c \in CallIds :
          (calls'[c] # calls[c] /\ calls'[c].route = "live"
              /\ ~IsValidReport(calls'[c].body)) =>
              /\ locations' = locations /\ geofenceEvents' = geofenceEvents
              /\ broadcasts' = broadcasts
              /\ calls'[c].pc = "done" => calls'[c].status = 400]_vars

(* The latest observedAt among the reports of call c *)
MaxObservedAt(c) ==
    IF calls[c].route = "live" THEN calls[c].body.timestamp
    ELSE CHOOSE t \in {calls[c].batch[k].timestamp : k \in 1..Len(calls[c].batch)} :
             \A k \in 1..Len(calls[c].batch) : calls[c].batch[k].timestamp <= t

(* C20: when a call, live or batch, returns success, the device's          *)
(* last-seen is the maximum observedAt among the reports of the call        *)
(* (no other call being in flight).                                         *)
C20_LastSeenMaxObservedAt ==
    [][\A c \in CallIds :
          (Succeeds(c) /\ HasReports(c) /\ RunsAlone(c)) =>
              LET d == IF calls[c].route = "live" THEN calls[c].body.deviceId
                       ELSE calls[c].batch[1].deviceId
              IN  lastSeen'[d] = MaxObservedAt(c)]_vars

(* C21: within one call the events of a report are created in ascending    *)
(* geofence-id order, whatever the order of the rows the store returned:    *)
(* the geofence of a new event has a greater id than every row before it    *)
(* in the snapshot that contains the report.                                *)
C21_AscendingGeofenceIds ==
    [][\A c \in CallIds :
          CreatesEvent(c) =>
              \A j \in ContainingRows(c) :
                  j < calls'[c].i =>
                      calls[c].snapshot[j].id < calls[c].snapshot[calls'[c].i].id]_vars

(* The shape contains the point: within the radius of a circle, inside the *)
(* ring of a polygon with longitude as x and latitude as y.                 *)
Contains(point, shape) ==
    IF shape.type = "Point"
    THEN shape.radius > 0 /\ ArcDistance(point, shape.center) <= shape.radius
    ELSE RayCastingParity(point, shape.ring)

EventsOf(events, d, g) ==
    {k \in 1..Len(events) : events[k].deviceId = d /\ events[k].geofenceId = g}

(* C22: when the live call of a stored report returns success, there is    *)
(* exactly one event, of type entry, and one geofence_event message for     *)
(* each geofence of its snapshot that contains the reported point and none  *)
(* for a geofence that does not; a message is sent only for an event that   *)
(* is in the table.                                                         *)
C22_OneEntryPerContaining ==
    [][\A c \in CallIds :
          /\ (Succeeds(c) /\ calls[c].route = "live") =>
                \A k \in 1..Len(calls[c].snapshot) :
                    LET row == calls[c].snapshot[k]
                        es  == EventsOf(geofenceEvents', calls[c].body.deviceId, row.id)
                        ms  == {m \in 1..Len(broadcasts') :
                                   /\ broadcasts'[m].type = "geofence_event"
                                   /\ broadcasts'[m].geofenceId = row.id}
                    IN  IF Contains(ReportPoint(calls[c].body), row.coordinates)
                        THEN /\ Cardinality(es) = 1 /\ Cardinality(ms) = 1
                             /\ \A e \in es : geofenceEvents'[e].eventType = "entry"
                        ELSE es = {} /\ ms = {}
          /\ \A m \in 1..Len(broadcasts') :
                broadcasts'[m].type = "geofence_event" =>
                    broadcasts'[m].id \in 1..Len(geofenceEvents)]_vars

\* The locations the client holds: the rows of the store and the rows the
\* cleanup has read and is about to add again.
Held ==
    offline.store \cup
        (IF offline.cleanup.pc = "addLocation"
         THEN offline.cleanup.recentLocations ELSE {})

HeldNext ==
    offline'.store \cup
        (IF offline'.cleanup.pc = "addLocation"
         THEN offline'.cleanup.recentLocations ELSE {})

IsRecent(location) == location.timestamp > offline.clock - RetentionDays

\* The step in which the server's acceptance of a sync request arrives.
SyncAccepted == offline.sync.pc = "request" /\ offline'.sync.pc = "accepted"

\* C23: a location younger than 7 days leaves the offline store only in the
\* step that accepts a sync request it was part of; one added while a sync
\* or the cleanup is in flight is never deleted unsent.
C23_RemovedOnlyWhenSent ==
    [][\A location \in Held :
          (IsRecent(location) /\ location \notin HeldNext) =>
              (SyncAccepted /\ location \in offline.sync.locations)]_vars

\* The step in which a sync attempt ends without the server's acceptance:
\* it failed, or it was skipped (offline, or nothing stored).
SyncFailedOrSkipped ==
    /\ offline'.sync.pc \in {"failed", "skipped"}
    /\ offline'.sync # offline.sync

\* C24: a sync that fails or is skipped leaves the offline store unchanged.
C24_FailedSyncKeepsStore ==
    [][SyncFailedOrSkipped => offline'.store = offline.store]_vars

\* A failed sync request whose locations are all still stored.
C24_Witness ==
    /\ offline.sync.pc = "failed"
    /\ offline.sync.locations # {}
    /\ offline.sync.locations \subseteq offline.store

\* The positions the hook has submitted.
Submitted == {geo.submissions[i].position : i \in 1..Len(geo.submissions)}

\* C25: every submitted position is in flight, accepted by the server or
\* stored offline, and the record stored for a failed POST has the
\* coordinates of the location whose POST failed.
C25_FailedPostStored ==
    /\ \A position \in Submitted :
           \/ position \in geo.requests
           \/ position \in geo.accepted
           \/ \E i \in 1..Len(geo.enqueued) : geo.enqueued[i].request = position
    /\ \A i \in 1..Len(geo.enqueued) :
           geo.enqueued[i].latitude = geo.enqueued[i].request

\* C29: at most one watch is registered, isTracking is true exactly when a
\* watch is registered, and isTracking is true after startTracking.
C29_TrackingMatchesWatch ==
    /\ Cardinality(geo.watching) <= 1
    /\ geo.isTracking <=> geo.watching # {}
    /\ geo.lastCall = "startTracking" => geo.isTracking

\* C30: two consecutive submissions are more than 30 seconds apart, and the
\* first position received is submitted.
C30_ThrottledSubmissions ==
    /\ \A i \in 1..(Len(geo.submissions) - 1) :
           geo.submissions[i + 1].at - geo.submissions[i].at > Throttle
    /\ geo.received > 0 =>
           /\ Len(geo.submissions) > 0
           /\ geo.submissions[1].position = 1

\* Two submissions with a position in between that was held back.
C30_Witness ==
    /\ Len(geo.submissions) >= 2
    /\ geo.submissions[1].position + 1 < geo.submissions[2].position

\* The requests the service worker has finished that changed a list of
\* geofences or devices.
FinishedChanges ==
    {f \in FetchIds :
        /\ apiCache.fetches[f].pc = "done"
        /\ apiCache.fetches[f].method # "GET"
        /\ apiCache.fetches[f].response # NULL
        /\ apiCache.fetches[f].pathname.route \in {"/api/geofences", "/api/devices"}}

\* C26: once a successful non-GET request under /api/geofences or
\* /api/devices has been handled, the API cache holds no response of the
\* list route that was cached before the change.
C26_NoStaleListEntry ==
    \A f \in FinishedChanges :
        LET route == apiCache.fetches[f].pathname.route
        IN  \/ apiCache.entries[route] = NULL
            \/ apiCache.entries[route] >= apiCache.fetches[f].response

\* The reconnects scheduled in a step.
SchedulesReconnect == PendingTimers(wsClient') > PendingTimers(wsClient)

\* C27: reconnectAttempts never exceeds maxReconnectAttempts; with the
\* attempts used up no reconnect is scheduled; the counter returns to 0
\* only when a socket opens.
C27_AttemptsBounded ==
    [][/\ wsClient'.reconnectAttempts <= maxReconnectAttempts
       /\ wsClient.reconnectAttempts >= maxReconnectAttempts => ~SchedulesReconnect
       /\ (wsClient.reconnectAttempts > 0 /\ wsClient'.reconnectAttempts = 0) =>
              \/ wsClient.current = "CONNECTING" /\ wsClient'.current = "OPEN"
              \/ wsClient'.orphans.open > wsClient.orphans.open]_vars

\* C28: after disconnect() the client holds no connecting or open socket
\* until connect() is called again.
C28_NoReconnectAfterDisconnect ==
    wsClient.explicit = "disconnect" => wsClient.current \notin {"CONNECTING", "OPEN"}

====
